---- MODULE Spec2Model ----
(***************************************************************************)
(* Model of the A2A task/context/event coordination core:                  *)
(*   src/src/a2a/server/events/event_queue.py   (EventQueue)               *)
(*   src/src/a2a/server/tasks.py                (task and context stores)  *)
(*   src/src/a2a/server/agent_execution.py      (BaseAgentExecutor)        *)
(*   src/src/a2a/agent/coordinator.py           (A2ACoordinatorAgent)      *)
(*   src/src/a2a/agent/agent_adapters.py        (ZavaAgentAdapter)         *)
(*   src/src/a2a/server/request_handlers.py     (DefaultRequestHandler)    *)
(*                                                                         *)
(* The program runs on one asyncio event loop.  A coroutine runs without   *)
(* interruption until it suspends; the only suspension points of the core  *)
(* are the asyncio.gather in EventQueue._notify_subscribers and the await  *)
(* of a cancelled execution in cancel_request (the store locks are never   *)
(* held across an await, so acquiring them never suspends).  Every action  *)
(* below is one such uninterrupted segment.                                *)
(***************************************************************************)
EXTENDS Integers, Sequences, FiniteSets, TLC

(***************************************************************************)
(* Bounds of the model.                                                    *)
(***************************************************************************)
MaxSize == 2          \* EventQueue(max_size=...) used by the model
MaxEvents == 3        \* publishes by external producers (SpecBus)
MaxSubs == 2          \* subscriptions by external consumers (SpecBus)
MaxProducers == 1     \* concurrent external producers (SpecBus)
MaxContexts == 2      \* context ids
MaxRequests == 2      \* requests (message ids) submitted or executed
MaxConcurrent == 1    \* requests in progress at the same time
MaxOps == 1           \* cancel calls and context deletions in one run
MaxWords == 5         \* words of a text given to a keyword function

Ctxs == 1..MaxContexts
Producers == 1..MaxProducers
\* message ids; the Task created for request r is given the id r
Requests == 1..MaxRequests

\* EventType values the model publishes (types.py, class EventType)
EventTypes == {"task_status_update", "task_artifact_update", "agent_handoff"}
\* the types the external producers of SpecBus publish
BusTypes == {"task_status_update", "task_artifact_update"}

VARIABLES
    events,               \* EventQueue._events (deque, oldest first)
    subscribers,          \* EventQueue._subscribers: type -> list of callbacks
    context_subscribers,  \* EventQueue._context_subscribers: contextId -> list
    nev,                  \* number of events created so far (id / clock source)
    inflight,             \* enqueue_event calls of external producers
    subAt,                \* callback -> nev at the time it subscribed (ghost)
    removed               \* events removed by clear_context_events (ghost)

VARIABLES
    contexts,             \* InMemoryContextStore._contexts (its keys)
    history,              \* TaskContext.conversation_history of each context object
    nctx,                 \* number of TaskContext objects created
    tasks,                \* InMemoryTaskStore._tasks (its keys)
    context_tasks,        \* InMemoryTaskStore._context_tasks
    task,                 \* the Task objects (shared by reference with the store)
    hpc,                  \* position of each handle_request call
    reqCtx,               \* RequestContext.task_context.id of each request
    active_executions,    \* RequestHandler._active_executions (its keys)
    kind,                 \* the executor a request is executed by
    pc,                   \* position of each execution coroutine
    pend,                 \* callback tasks the execution's publish waits for
    current_task,         \* RequestContext.current_task is set
    domain,               \* the domain the request was classified / routed to
    cancelled,            \* asyncio cancellation requested for the execution
    active_handoffs,      \* A2ACoordinatorAgent.active_handoffs (key/value pairs)
    execution_count,      \* BaseAgentExecutor._execution_count per executor
    error_count,          \* BaseAgentExecutor._error_count per executor
    cpc,                  \* position of each Coordinator.cancel call
    cpend,                \* callback tasks the cancel's publish waits for
    pubs,                 \* events published for each request so far (ghost)
    raised,               \* executors whose concrete logic raised, per request (ghost)
    missed                \* requests with an event published before the caller
                          \* could subscribe (ghost)

VARIABLES
    older_tasks,          \* stored Tasks of each context that are older than
                          \* the Tasks of the modelled requests (a count)
    call                  \* the last call of a pure function: input and result

busVars == <<events, subscribers, context_subscribers, nev, inflight,
             subAt, removed>>
storeVars == <<contexts, history, nctx, tasks, context_tasks, task>>
handlerVars == <<hpc, reqCtx, active_executions>>
execVars == <<kind, pc, pend, current_task, domain, cancelled>>
agentVars == <<active_handoffs, execution_count, error_count>>
cancelVars == <<cpc, cpend>>
ghostVars == <<pubs, raised, missed>>
auxVars == <<older_tasks, call>>
coreVars == <<storeVars, handlerVars, execVars, agentVars, cancelVars, ghostVars,
              auxVars>>

vars == <<busVars, coreVars>>

(***************************************************************************)
(* Helpers.                                                                *)
(***************************************************************************)
Min(a, b) == IF a <= b THEN a ELSE b

Range(f) == {f[i] : i \in DOMAIN f}

RECURSIVE SeqFilterCtx(_, _)
\* the list comprehension [e for e in xs if e.contextId == c], order kept
SeqFilterCtx(xs, c) ==
    IF xs = <<>> THEN <<>>
    ELSE IF Head(xs).contextId = c
         THEN <<Head(xs)>> \o SeqFilterCtx(Tail(xs), c)
         ELSE SeqFilterCtx(Tail(xs), c)

RECURSIVE SeqDropCtx(_, _)
\* the list comprehension [e for e in xs if e.contextId != c], order kept
SeqDropCtx(xs, c) ==
    IF xs = <<>> THEN <<>>
    ELSE IF Head(xs).contextId # c
         THEN <<Head(xs)>> \o SeqDropCtx(Tail(xs), c)
         ELSE SeqDropCtx(Tail(xs), c)

RECURSIVE SeqFilterTypes(_, _)
SeqFilterTypes(xs, ts) ==
    IF xs = <<>> THEN <<>>
    ELSE IF Head(xs).type \in ts
         THEN <<Head(xs)>> \o SeqFilterTypes(Tail(xs), ts)
         ELSE SeqFilterTypes(Tail(xs), ts)

RECURSIVE InsertDesc(_, _)
\* insert e into a list sorted by timestamp descending, after equal keys
InsertDesc(e, xs) ==
    IF xs = <<>> THEN <<e>>
    ELSE IF Head(xs).ts >= e.ts
         THEN <<Head(xs)>> \o InsertDesc(e, Tail(xs))
         ELSE <<e>> \o xs

RECURSIVE SortDesc(_)
\* list.sort(key=lambda e: e.timestamp, reverse=True): stable, newest first
SortDesc(xs) ==
    IF xs = <<>> THEN <<>>
    ELSE InsertDesc(xs[Len(xs)], SortDesc(SubSeq(xs, 1, Len(xs) - 1)))

(***************************************************************************)
(* EventQueue                                                              *)
(***************************************************************************)
max_size == MaxSize

\* A buggy deque: a full buffer refuses the new element.
DequeAppendDropNewest(q, e) ==
    IF Len(q) >= max_size THEN q ELSE Append(q, e)

\* deque(maxlen=max_size).append(e): a full deque drops its leftmost element
DequeAppend(q, e) ==
    IF Len(q) >= max_size THEN Append(Tail(q), e) ELSE Append(q, e)

\* _notify_subscribers: the callbacks a task is created for, in order
NotifyList(e) ==
    subscribers[e.type] \o context_subscribers[e.contextId]

\* A buggy fan-out: the first failing callback ends the publish with an error.
PublishOutcomePropagating(res) ==
    IF \E i \in 1..Len(res) : res[i] = "raised" THEN "raised" ELSE "returned"

\* How enqueue_event ends once every callback task is done: _safe_callback
\* catches the callback's exception and gather(return_exceptions=True)
\* collects results, so the producer always gets a normal return.
PublishOutcome(res) ==
    "returned"

\* A buggy fan-out: enqueue_event does not wait for the callback tasks.
AllAttemptedNoWait(res) ==
    TRUE

\* asyncio.gather(*notification_tasks) is done when every task is done
AllAttempted(res) ==
    \A i \in 1..Len(res) : res[i] # "pending"

\* get_events_for_context(context_id, event_types, limit); an empty/None
\* event_types is the empty set, a None/0 limit is 0
get_events_for_context(c, ts, limit) ==
    LET byCtx == SeqFilterCtx(events, c)
        byType == IF ts # {} THEN SeqFilterTypes(byCtx, ts) ELSE byCtx
        sorted == SortDesc(byType)
    IN IF limit # 0 THEN SubSeq(sorted, 1, Min(limit, Len(sorted))) ELSE sorted

\* the buffered object is a BaseEvent: it has a type and a timestamp (a
\* Task object passed to enqueue_event has neither)
IsEvent(e) == e.type # "none"

\* get_events_for_context(c, ...) ends with AttributeError: event.type or
\* e.timestamp is read on an object of context c that has none
QueryRaises(c) ==
    \E i \in 1..Len(events) : events[i].contextId = c /\ ~IsEvent(events[i])

\* get_queue_stats()["total_events"]
total_events == Len(events)

ExtCb(n) == [kind |-> "ext", n |-> n]

NewEvent(t, c) ==
    [id |-> nev + 1, ts |-> nev + 1, type |-> t, contextId |-> c,
     taskId |-> 0, state |-> "none", final |-> FALSE, to_agent |-> "none"]

IdleCall == [st |-> "idle", ev |-> NewEvent("task_status_update", 1),
             cbs |-> <<>>, res |-> <<>>]

InitQueue ==
    /\ events = <<>>
    /\ subscribers = [t \in EventTypes |-> <<>>]
    /\ context_subscribers = [c \in Ctxs |-> <<>>]
    /\ nev = 0
    /\ inflight = [p \in Producers |-> IdleCall]
    /\ subAt = [n \in 1..MaxSubs |-> 0]
    /\ removed = 0

NSubs == Cardinality({n \in 1..MaxSubs : subAt[n] # 0})

\* subscribe_to_event_type(event_type, callback)
SubscribeType(t) ==
    /\ NSubs < MaxSubs
    /\ subscribers' = [subscribers EXCEPT ![t] = Append(@, ExtCb(NSubs + 1))]
    /\ subAt' = [subAt EXCEPT ![NSubs + 1] = nev + 1]
    /\ UNCHANGED <<events, context_subscribers, nev, inflight, removed>>
    /\ UNCHANGED coreVars

\* subscribe_to_context(context_id, callback)
SubscribeContext(c) ==
    /\ NSubs < MaxSubs
    /\ context_subscribers' =
           [context_subscribers EXCEPT ![c] = Append(@, ExtCb(NSubs + 1))]
    /\ subAt' = [subAt EXCEPT ![NSubs + 1] = nev + 1]
    /\ UNCHANGED <<events, subscribers, nev, inflight, removed>>
    /\ UNCHANGED coreVars

\* enqueue_event up to the await of asyncio.gather: append under the lock,
\* create one task per matching callback
PublishStart(p, t, c) ==
    /\ inflight[p].st = "idle"
    /\ nev < MaxEvents
    /\ LET e == NewEvent(t, c)
           cbs == NotifyList(e)
       IN /\ events' = DequeAppend(events, e)
          /\ nev' = nev + 1
          /\ inflight' = [inflight EXCEPT ![p] =
                 [st |-> "waiting", ev |-> e, cbs |-> cbs,
                  res |-> [i \in 1..Len(cbs) |-> "pending"]]]
    /\ UNCHANGED <<subscribers, context_subscribers, subAt, removed>>
    /\ UNCHANGED coreVars

\* one _safe_callback task runs: the callback returns or raises
\* (the loop runs ready tasks in the order they were created)
DeliverCallback(p, i, raises) ==
    /\ inflight[p].st = "waiting"
    /\ i \in 1..Len(inflight[p].cbs)
    /\ inflight[p].res[i] = "pending"
    /\ \A j \in 1..(i - 1) : inflight[p].res[j] # "pending"
    /\ \A q \in Producers :
           (\E j \in 1..Len(inflight[q].res) : inflight[q].res[j] = "pending")
               => inflight[q].ev.id >= inflight[p].ev.id
    /\ inflight' = [inflight EXCEPT ![p].res[i] =
                        IF raises THEN "raised" ELSE "ok"]
    /\ UNCHANGED <<events, subscribers, context_subscribers, nev, subAt, removed>>
    /\ UNCHANGED coreVars

\* the gather is done: enqueue_event ends
PublishReturn(p) ==
    /\ inflight[p].st = "waiting"
    /\ AllAttempted(inflight[p].res)
    /\ inflight' = [inflight EXCEPT ![p].st = PublishOutcome(inflight[p].res)]
    /\ UNCHANGED <<events, subscribers, context_subscribers, nev, subAt,
                   removed>>
    /\ UNCHANGED coreVars

\* the producer goes on to its next publish
ProducerNext(p) ==
    /\ inflight[p].st = "returned"
    /\ inflight' = [inflight EXCEPT ![p] = IdleCall]
    /\ UNCHANGED <<events, subscribers, context_subscribers, nev, subAt,
                   removed>>
    /\ UNCHANGED coreVars

\* A buggy count: the number of events that are left.
cleared_count_left(initial, left) == Len(left)

\* cleared_count = initial_count - len(self._events)
cleared_count(initial, left) == Len(initial) - Len(left)

\* clear_context_events(context_id); removed adds up the returned counts
ClearContextEvents(c) ==
    /\ \E i \in 1..Len(events) : events[i].contextId = c
    /\ events' = SeqDropCtx(events, c)
    /\ removed' = removed + cleared_count(events, events')
    /\ UNCHANGED <<subscribers, context_subscribers, nev, inflight, subAt>>
    /\ UNCHANGED coreVars

NextBus ==
    \/ \E t \in BusTypes : SubscribeType(t)
    \/ \E c \in Ctxs : SubscribeContext(c)
    \/ \E p \in Producers, t \in BusTypes, c \in Ctxs : PublishStart(p, t, c)
    \/ \E p \in Producers, i \in 1..(2 * MaxSubs), b \in BOOLEAN : DeliverCallback(p, i, b)
    \/ \E p \in Producers : PublishReturn(p)
    \/ \E p \in Producers : ProducerNext(p)
    \/ \E c \in Ctxs : ClearContextEvents(c)


(***************************************************************************)
(* Keyword functions: _simple_classification and _check_for_handoff.      *)
(* A text is the set of its words; a keyword occurs in the text when it is *)
(* a substring of one of the lower-cased words.                            *)
(***************************************************************************)
\* words of the texts given to _simple_classification
ClassifyWords ==
    {"design", "COLOR", "paint", "room", "style", "redecorate", "stock",
     "inventory", "discount", "cart", "help", "crop"}
\* words of the response texts given to _check_for_handoff
HandoffWords ==
    {"crop", "Resize", "background", "thumbnail", "video", "helpful", "done"}

Texts(words) == {t \in SUBSET words : Cardinality(t) <= MaxWords}

\* str.lower() on a word
lower(w) ==
    CASE w = "COLOR" -> "color"
      [] w = "Resize" -> "resize"
      [] OTHER -> w

\* keyword in word (substring test) for the words above
KeywordIn(kw, w) ==
    \/ kw = w
    \/ w = "redecorate" /\ kw = "decor"
    \/ w = "helpful" /\ kw = "help"

\* keyword in message_lower
Occurs(kw, text) == \E w \in text : KeywordIn(kw, lower(w))

\* domain_patterns of _simple_classification, in insertion order
domain_patterns ==
    << [domain |-> "interior_design",
        keywords |-> {"design", "color", "paint", "room", "style", "decor",
                      "furniture", "interior", "aesthetic"}],
       [domain |-> "inventory",
        keywords |-> {"stock", "available", "inventory", "in store",
                      "quantity", "do you have", "is there"}],
       [domain |-> "customer_loyalty",
        keywords |-> {"discount", "loyalty", "points", "member", "reward",
                      "savings", "deal"}],
       [domain |-> "cart_management",
        keywords |-> {"cart", "add", "remove", "purchase", "buy", "checkout",
                      "order", "item"}],
       [domain |-> "cora",
        keywords |-> {"help", "information", "question", "what is",
                      "tell me about"}] >>

\* sum(1 for keyword in keywords if keyword in message_lower)
Score(i, text) ==
    Cardinality({kw \in domain_patterns[i].keywords : Occurs(kw, text)})

\* scores: the domains with a score above zero
Scored(text) == {i \in 1..Len(domain_patterns) : Score(i, text) > 0}

\* A buggy maximum: among equal scores the last-registered domain wins.
best_domain_last(text) ==
    CHOOSE i \in Scored(text) :
        \A j \in Scored(text) :
            /\ Score(j, text) <= Score(i, text)
            /\ j > i => Score(j, text) < Score(i, text)

\* max(scores, key=scores.get): the first key, in insertion order, with the
\* highest score
best_domain(text) ==
    CHOOSE i \in Scored(text) :
        \A j \in Scored(text) :
            /\ Score(j, text) <= Score(i, text)
            /\ j < i => Score(j, text) < Score(i, text)

\* confidences are counted in tenths: min(0.8, score * 0.2), and 0.3
ConfidenceCap == 8
ConfidencePerMatch == 2
FallbackConfidence == 3
DefaultDomain == "product_management"

\* A2ACoordinatorAgent._simple_classification(user_message)
simple_classification(text) ==
    IF Scored(text) # {}
    THEN [domain |-> domain_patterns[best_domain(text)].domain,
          confidence |-> Min(ConfidenceCap,
                             Score(best_domain(text), text) * ConfidencePerMatch)]
    ELSE [domain |-> DefaultDomain, confidence |-> FallbackConfidence]

\* handoff_patterns of _check_for_handoff, in insertion order
handoff_patterns ==
    << [domain |-> "cropping_agent",
        keywords |-> {"crop", "cut out", "focus on", "resize"}],
       [domain |-> "background_agent",
        keywords |-> {"background", "remove background",
                      "replace background", "transparent"}],
       [domain |-> "thumbnail_generator",
        keywords |-> {"thumbnail", "cover image", "youtube cover"}],
       [domain |-> "video_agent",
        keywords |-> {"video", "movie", "animate", "motion"}],
       [domain |-> "orchestrator",
        keywords |-> {"help", "start over", "general"}] >>

\* agent_domain of the five ZavaAgentAdapter subclasses
AdapterDomains == {handoff_patterns[i].domain : i \in 1..Len(handoff_patterns)}

\* structured_data: None, a dict without "handoff", or a dict whose
\* "handoff" names an agent
StructuredData == {"None", "no_handoff"} \cup AdapterDomains

NoHandoff == [to_agent |-> "none", reason |-> "no_keyword"]

\* A buggy scan: the adapter's own domain is scanned like the others.
HandoffCandidatesAll(agent) == 1..Len(handoff_patterns)

\* if agent_domain != self.agent_domain: the patterns the loop looks at
HandoffCandidates(agent) ==
    {i \in 1..Len(handoff_patterns) : handoff_patterns[i].domain # agent}

\* the patterns of the loop that have a keyword in response_lower
HandoffHits(agent, text) ==
    {i \in HandoffCandidates(agent) :
        \E kw \in handoff_patterns[i].keywords : Occurs(kw, text)}

\* ZavaAgentAdapter._check_for_handoff(structured_data, response_text) of
\* the adapter with self.agent_domain = agent
check_for_handoff(agent, structured_data, text) ==
    IF structured_data \in AdapterDomains
    THEN [to_agent |-> structured_data, reason |-> "explicit"]
    ELSE IF HandoffHits(agent, text) # {}
         THEN [to_agent |->
                   handoff_patterns[
                       CHOOSE i \in HandoffHits(agent, text) :
                           \A j \in HandoffHits(agent, text) : i <= j].domain,
               reason |-> "keyword"]
         ELSE NoHandoff

(***************************************************************************)
(* Stores, executors, Coordinator and Request Handler                      *)
(***************************************************************************)
\* keys of A2ACoordinatorAgent.agents the model keeps (two of the five)
AgentKeys == {"orchestrator", "cropping_agent"}
\* the text of the modelled requests
MessageText == {"crop"}
\* HandoffService.classify_intent for that text: a registered domain
ServiceLabels == {"cropping_agent"}
\* _classify_intent: the HandoffService's answer, or, without the service
\* or when it raises, the keyword classification
Labels == ServiceLabels \cup {simple_classification(MessageText).domain}
Executors == {"coordinator"} \cup AgentKeys
\* TaskState values that end a Task
Terminal == {"completed", "failed", "cancelled"}

HandlerCb == [kind |-> "handler", n |-> 0]   \* _handle_task_status_update
HandoffCb == [kind |-> "handoff", n |-> 0]   \* _handle_handoff_event
ClientCb(r) == [kind |-> "client", n |-> r]  \* the caller's event_callback

NoTask == [state |-> "none", assigned_agent |-> "none", contextId |-> 0]
NoEvent == [id |-> 0, ts |-> 0, type |-> "none", contextId |-> 0,
            taskId |-> 0, state |-> "none", final |-> FALSE, to_agent |-> "none"]
NoPend == [ev |-> NoEvent, cbs |-> <<>>]

\* TaskStatusUpdateEvent(status=TaskStatus(state=st, ...), final=fin, ...)
StatusEvent(r, st, fin) ==
    [id |-> nev + 1, ts |-> nev + 1, type |-> "task_status_update",
     contextId |-> reqCtx[r], taskId |-> r, state |-> st, final |-> fin,
     to_agent |-> "none"]

\* TaskArtifactUpdateEvent(...)
ArtifactEvent(r) ==
    [id |-> nev + 1, ts |-> nev + 1, type |-> "task_artifact_update",
     contextId |-> reqCtx[r], taskId |-> r, state |-> "none", final |-> FALSE,
     to_agent |-> "none"]

\* AgentHandoffEvent(taskId, contextId, from_agent, to_agent, ...)
HandoffEvent(r, to) ==
    [id |-> nev + 1, ts |-> nev + 1, type |-> "agent_handoff",
     contextId |-> reqCtx[r], taskId |-> r, state |-> "none", final |-> FALSE,
     to_agent |-> to]

\* the Task object that _execute_impl passes to enqueue_event: it has an id
\* and a contextId but neither a type nor a timestamp
TaskObject(r) ==
    [id |-> 0, ts |-> 0, type |-> "none", contextId |-> reqCtx[r],
     taskId |-> r, state |-> "created", final |-> FALSE, to_agent |-> "none"]

\* m[k] = v on a dict kept as a set of key/value pairs
DictSet(m, k, v) == {q \in m : q[1] # k} \cup {<<k, v>>}

\* A buggy cleanup: the entry is left in the map.
DictDelNothing(m, k) == m

\* if k in m: del m[k]
DictDel(m, k) == {q \in m : q[1] # k}

DictHas(m, k) == \E q \in m : q[1] = k
DictGet(m, k) == (CHOOSE q \in m : q[1] = k)[2]

\* A scheduler that runs a new task inside asyncio.create_task.
MayRunEager(r) == TRUE

\* asyncio.create_task only schedules the execution; no other coroutine
\* runs between create_task and the return of handle_request to its caller
MayRun(r) == hpc[r] # "launched"

LoopFree == \A r \in Requests : MayRun(r)

\* the callback tasks of a publish that change the state of the core (the
\* callbacks of outside consumers run too, and change nothing here)
CoreCbs(e) ==
    SelectSeq(NotifyList(e), LAMBDA cb : cb.kind \in {"handler", "handoff"})

PubRecord(e, by) ==
    [type |-> e.type, state |-> e.state, final |-> e.final, by |-> by]

\* enqueue_event(e) by the execution of request r, up to the gather
ExecPublish(r, e, nextpc) ==
    /\ events' = DequeAppend(events, e)
    /\ nev' = nev + 1
    /\ pend' = [pend EXCEPT ![r] = [ev |-> e, cbs |-> CoreCbs(e)]]
    /\ pc' = [pc EXCEPT ![r] = nextpc]
    /\ pubs' = [pubs EXCEPT ![r] = Append(@, PubRecord(e, "execute"))]
    /\ missed' = IF ClientCb(r) \in Range(NotifyList(e))
                 THEN missed ELSE missed \cup {r}

\* A buggy history: the new entry replaces the entries before it.
add_to_conversation_history_reset(h, role, content) == <<<<role, content>>>>

\* add_to_conversation_history(context, role, content) on the history list
\* of the context object; the text of request r is written r
add_to_conversation_history(h, role, content) == Append(h, <<role, content>>)

\* no pure function has been called
NoCall == [fn |-> "none", agent |-> "none", structured_data |-> "None",
           text |-> {}, domain |-> "none", confidence |-> 0, reason |-> "none"]

InitCoreIdle ==
    /\ contexts = {}
    /\ history = [c \in Ctxs |-> <<>>]
    /\ nctx = 0
    /\ tasks = {}
    /\ context_tasks = [c \in Ctxs |-> {}]
    /\ task = [r \in Requests |-> NoTask]
    /\ hpc = [r \in Requests |-> "none"]
    /\ reqCtx = [r \in Requests |-> 0]
    /\ active_executions = {}
    /\ kind = [r \in Requests |-> "coordinator"]
    /\ pc = [r \in Requests |-> "idle"]
    /\ pend = [r \in Requests |-> NoPend]
    /\ current_task = [r \in Requests |-> FALSE]
    /\ domain = [r \in Requests |-> "none"]
    /\ cancelled = [r \in Requests |-> FALSE]
    /\ active_handoffs = {}
    /\ execution_count = [x \in Executors |-> 0]
    /\ error_count = [x \in Executors |-> 0]
    /\ cpc = [r \in Requests |-> "idle"]
    /\ cpend = [r \in Requests |-> NoPend]
    /\ pubs = [r \in Requests |-> <<>>]
    /\ raised = [r \in Requests |-> {}]
    /\ missed = {}
    /\ older_tasks = [c \in Ctxs |-> 0]

\* DefaultRequestHandler.__init__ subscribes _handle_task_status_update
Init ==
    /\ events = <<>>
    /\ subscribers = [t \in EventTypes |->
                         IF t = "task_status_update" THEN <<HandlerCb>> ELSE <<>>]
    /\ context_subscribers = [c \in Ctxs |-> <<>>]
    /\ nev = 0
    /\ inflight = [p \in Producers |-> IdleCall]
    /\ subAt = [n \in 1..MaxSubs |-> 0]
    /\ removed = 0
    /\ InitCoreIdle
    /\ call = NoCall

\* the execution of r has run its first step / has ended
Started(r) == pc[r] \notin {"idle", "scheduled"}
Ended(r) == pc[r] \in {"done", "cancelled", "never_ran"}

\* A buggy lookup: every context id is taken as known.
ContextFoundAlways(c) == TRUE

\* handle_request: await self.context_store.get_context(context_id) is not
\* None
ContextFound(c) == c \in contexts

\* the next unused message id
NextRequest(r) == hpc[r] = "none" /\ \A q \in 1..(r - 1) : hpc[q] # "none"

\* DefaultRequestHandler.handle_request up to asyncio.create_task and the
\* registration in _active_executions; c = 0 stands for context_id=None
HandleRequest(r, c) ==
    /\ LoopFree
    /\ NextRequest(r)
    /\ Cardinality({q \in Requests : pc[q] # "idle" /\ ~Ended(q)}) < MaxConcurrent
    /\ pc[r] = "idle"
    /\ IF c # 0 /\ ~ContextFound(c)
       THEN \* raise ValueError("Context ... not found")
            /\ hpc' = [hpc EXCEPT ![r] = "rejected"]
            /\ UNCHANGED <<contexts, history, nctx, reqCtx, active_executions,
                           kind, pc>>
       ELSE /\ c = 0 => nctx < MaxContexts
            /\ LET ctx == IF c = 0 THEN nctx + 1 ELSE c IN
               /\ contexts' = contexts \cup {ctx}
               /\ nctx' = IF c = 0 THEN nctx + 1 ELSE nctx
               /\ history' = [history EXCEPT
                               ![ctx] = add_to_conversation_history(@, "user", r)]
               /\ reqCtx' = [reqCtx EXCEPT ![r] = ctx]
            /\ kind' = [kind EXCEPT ![r] = "coordinator"]
            /\ pc' = [pc EXCEPT ![r] = "scheduled"]
            /\ active_executions' = active_executions \cup {r}
            /\ hpc' = [hpc EXCEPT ![r] = "launched"]
    /\ UNCHANGED <<busVars, tasks, context_tasks, task, pend, current_task,
                   domain, cancelled, agentVars, cancelVars, ghostVars>>
    /\ UNCHANGED auxVars

\* handle_request returns the RequestContext; its caller subscribes by the
\* returned context id before it suspends (apps.py, stream_generator)
HandleRequestReturn(r) ==
    /\ hpc[r] = "launched"
    /\ hpc' = [hpc EXCEPT ![r] = "returned"]
    /\ context_subscribers' =
           [context_subscribers EXCEPT ![reqCtx[r]] = Append(@, ClientCb(r))]
    /\ UNCHANGED <<events, subscribers, nev, inflight, subAt, removed,
                   storeVars, reqCtx, active_executions, execVars, agentVars,
                   cancelVars, ghostVars>>
    /\ UNCHANGED auxVars

\* BaseAgentExecutor.execute of the Coordinator up to its first suspension:
\* count, _execute_impl (subscribe, get or create task, history, classify,
\* publish "working")
CoordinatorBegin(r, hasTask) ==
    /\ execution_count' = [execution_count EXCEPT !["coordinator"] = @ + 1]
    /\ subscribers' = [subscribers EXCEPT !["agent_handoff"] = Append(@, HandoffCb)]
    /\ IF ~hasTask
       THEN \* enqueue_event(task) appends the Task and then fails on
            \* event.type; execute catches it, counts the error, and
            \* _handle_execution_error publishes nothing without a task
            /\ events' = DequeAppend(events, TaskObject(r))
            /\ error_count' = [error_count EXCEPT !["coordinator"] = @ + 1]
            /\ raised' = [raised EXCEPT ![r] = @ \cup {"coordinator"}]
            /\ pc' = [pc EXCEPT ![r] = "done"]
            /\ active_executions' = active_executions \ {r}
            /\ UNCHANGED <<nev, pend, pubs, missed, history, domain>>
       ELSE /\ history' = [history EXCEPT
                   ![reqCtx[r]] = add_to_conversation_history(@, "user", r)]
            /\ \E d \in Labels : domain' = [domain EXCEPT ![r] = d]
            /\ ExecPublish(r, StatusEvent(r, "working", FALSE), "coord_working")
            /\ UNCHANGED <<error_count, raised, active_executions>>

\* _execute_agent_with_tracking starts: create the Task, then execute
ExecStart(r) ==
    /\ LoopFree
    /\ pc[r] = "scheduled"
    /\ hpc[r] # "direct"
    /\ ~cancelled[r]
    /\ tasks' = tasks \cup {r}
    /\ context_tasks' = [context_tasks EXCEPT ![reqCtx[r]] = @ \cup {r}]
    /\ task' = [task EXCEPT ![r] = [state |-> "created", assigned_agent |-> "none",
                                    contextId |-> reqCtx[r]]]
    /\ current_task' = [current_task EXCEPT ![r] = TRUE]
    /\ CoordinatorBegin(r, TRUE)
    /\ UNCHANGED <<context_subscribers, inflight, subAt, removed, contexts, nctx,
                   hpc, reqCtx, kind, cancelled, active_handoffs, cancelVars>>
    /\ UNCHANGED auxVars

\* BaseAgentExecutor.execute of an adapter called directly, up to its first
\* suspension: count, _execute_impl (get or create task, publish "working")
AdapterBegin(r, hasTask) ==
    /\ execution_count' = [execution_count EXCEPT ![kind[r]] = @ + 1]
    /\ IF ~hasTask
       THEN \* enqueue_event(task) fails as in the Coordinator
            /\ events' = DequeAppend(events, TaskObject(r))
            /\ error_count' = [error_count EXCEPT ![kind[r]] = @ + 1]
            /\ raised' = [raised EXCEPT ![r] = @ \cup {kind[r]}]
            /\ pc' = [pc EXCEPT ![r] = "done"]
            /\ UNCHANGED <<nev, pend, pubs, missed, domain>>
       ELSE /\ domain' = [domain EXCEPT ![r] = kind[r]]
            /\ ExecPublish(r, StatusEvent(r, "working", FALSE), "ad_working")
            /\ UNCHANGED <<error_count, raised>>

\* execute(context, event_queue) called on an executor without the
\* DefaultRequestHandler (as RequestHandler._execute_agent does); the calls
\* are made in the order of their message ids
DirectExecute(r) ==
    /\ pc[r] = "scheduled"
    /\ hpc[r] = "direct"
    /\ Cardinality({q \in Requests : Started(q) /\ ~Ended(q)}) < MaxConcurrent
    /\ \A q \in 1..(r - 1) : Started(q)
    /\ IF kind[r] = "coordinator"
       THEN CoordinatorBegin(r, current_task[r])
       ELSE /\ AdapterBegin(r, current_task[r])
            /\ UNCHANGED <<subscribers, history, active_executions>>
    /\ UNCHANGED <<context_subscribers, inflight, subAt, removed, contexts, nctx,
                   tasks, context_tasks, task, hpc, reqCtx, kind, current_task,
                   cancelled, active_handoffs, cancelVars>>
    /\ UNCHANGED auxVars

\* DefaultRequestHandler._handle_task_status_update(e) on the Task Store
ApplyStatus(e) ==
    IF e.taskId \in tasks
    THEN [task EXCEPT ![e.taskId].state = e.state]
    ELSE task

\* A2ACoordinatorAgent._handle_handoff_event(e)
ApplyHandoff(e) == DictSet(active_handoffs, e.taskId, e.to_agent)

\* the event loop runs ready tasks in the order they were created: a callback
\* task runs only when no callback task of an earlier publish is waiting
\* (event ids are given in publish order)
OldestPending(id) ==
    \A q \in Requests :
        /\ pend[q].cbs # <<>> => pend[q].ev.id >= id
        /\ cpend[q].cbs # <<>> => cpend[q].ev.id >= id

\* one callback task of the publish the execution waits in runs
Deliver(r) ==
    /\ LoopFree
    /\ pend[r].cbs # <<>>
    /\ OldestPending(pend[r].ev.id)
    /\ LET cb == Head(pend[r].cbs)
           e == pend[r].ev
       IN /\ task' = IF cb.kind = "handler" THEN ApplyStatus(e) ELSE task
          /\ active_handoffs' = IF cb.kind = "handoff" THEN ApplyHandoff(e)
                                ELSE active_handoffs
    /\ pend' = [pend EXCEPT ![r].cbs = Tail(@)]
    /\ UNCHANGED <<busVars, contexts, history, nctx, tasks, context_tasks,
                   handlerVars, kind, pc, current_task, domain, cancelled,
                   execution_count, error_count, cancelVars, ghostVars>>
    /\ UNCHANGED auxVars

\* the execution is suspended in a publish whose callbacks are all done
Resumable(r, at) ==
    /\ LoopFree
    /\ pc[r] = at
    /\ pend[r].cbs = <<>>
    /\ ~cancelled[r]

\* the adapter's execute runs inside the try/finally of _route_to_agent
InRoute(r) ==
    /\ kind[r] = "coordinator"
    /\ pc[r] \in {"ad_working", "ad_artifact", "ad_handoff", "ad_final"}

\* _route_to_agent after the "working" publish of _execute_impl, up to the
\* next suspension: either self.agents[domain] fails for an unregistered
\* domain ("product_management" is no key either) and _execute_impl
\* publishes "failed", or the adapter's execute starts
RouteToAgent(r) ==
    /\ Resumable(r, "coord_working")
    /\ IF domain[r] \notin AgentKeys
       THEN /\ domain' = [domain EXCEPT ![r] = "product_management"]
            /\ raised' = [raised EXCEPT ![r] = @ \cup {"coordinator"}]
            /\ ExecPublish(r, StatusEvent(r, "failed", TRUE), "coord_failed")
            /\ UNCHANGED <<active_handoffs, task, execution_count>>
       ELSE /\ active_handoffs' = DictSet(active_handoffs, r, domain[r])
            /\ task' = [task EXCEPT ![r].assigned_agent = domain[r],
                                    ![r].state = "assigned"]
            /\ execution_count' = [execution_count EXCEPT ![domain[r]] = @ + 1]
            /\ ExecPublish(r, StatusEvent(r, "working", FALSE), "ad_working")
            /\ UNCHANGED <<domain, raised>>
    /\ UNCHANGED <<subscribers, context_subscribers, inflight, subAt, removed,
                   contexts, history, nctx, tasks, context_tasks, handlerVars,
                   kind, current_task, cancelled, error_count, cancelVars>>
    /\ UNCHANGED auxVars

\* ZavaAgentAdapter._execute_impl after its "working" publish: the response
\* is processed (_process_agent_response) or something raises
AdapterRespond(r) ==
    /\ Resumable(r, "ad_working")
    /\ \/ /\ ExecPublish(r, ArtifactEvent(r), "ad_artifact")
          /\ UNCHANGED raised
       \/ /\ \E to \in AgentKeys \ {domain[r]} :
                 ExecPublish(r, HandoffEvent(r, to), "ad_handoff")
          /\ UNCHANGED raised
       \/ /\ raised' = [raised EXCEPT ![r] = @ \cup {domain[r]}]
          /\ ExecPublish(r, StatusEvent(r, "failed", TRUE), "ad_final")
    /\ UNCHANGED <<subscribers, context_subscribers, inflight, subAt, removed,
                   storeVars, handlerVars, kind, current_task, domain, cancelled,
                   agentVars, cancelVars>>
    /\ UNCHANGED auxVars

\* _process_agent_response, normal completion: "completed" after the artifact
AdapterComplete(r) ==
    /\ Resumable(r, "ad_artifact")
    /\ ExecPublish(r, StatusEvent(r, "completed", TRUE), "ad_final")
    /\ UNCHANGED <<subscribers, context_subscribers, inflight, subAt, removed,
                   storeVars, handlerVars, kind, current_task, domain, cancelled,
                   agentVars, cancelVars, raised>>
    /\ UNCHANGED auxVars

\* _process_agent_response, handoff: "waiting_for_handoff" after the handoff
AdapterWaitHandoff(r) ==
    /\ Resumable(r, "ad_handoff")
    /\ ExecPublish(r, StatusEvent(r, "waiting_for_handoff", TRUE), "ad_final")
    /\ UNCHANGED <<subscribers, context_subscribers, inflight, subAt, removed,
                   storeVars, handlerVars, kind, current_task, domain, cancelled,
                   agentVars, cancelVars, raised>>
    /\ UNCHANGED auxVars

\* the last publish is over: the adapter returns, the finally of
\* _route_to_agent and that of _execute_agent_with_tracking run
ExecReturn(r) ==
    /\ \/ Resumable(r, "ad_final")
       \/ Resumable(r, "coord_failed")
    /\ active_handoffs' = IF InRoute(r) THEN DictDel(active_handoffs, r)
                          ELSE active_handoffs
    /\ active_executions' = active_executions \ {r}
    /\ pc' = [pc EXCEPT ![r] = "done"]
    /\ UNCHANGED <<busVars, storeVars, hpc, reqCtx, kind, pend, current_task,
                   domain, cancelled, execution_count, error_count, cancelVars,
                   ghostVars>>
    /\ UNCHANGED auxVars

\* the cancel calls made so far
Cancels ==
    Cardinality({r \in Requests : cpc[r] # "idle"})
    + Cardinality({r \in Requests : cancelled[r] \/ pc[r] = "never_ran"})
    + (IF call.fn = "cancel_request" /\ ~call.tracked THEN 1 ELSE 0)

\* the contexts deleted so far
Deleted == nctx - Cardinality(contexts)

\* cancel calls and context deletions so far
Ops == Cancels + Deleted

\* RequestHandler.cancel_request(r) for a tracked execution, up to its await:
\* a task that has not started never runs; a task suspended in a publish has
\* the callback tasks it waits for cancelled with it
CancelRequest(r) ==
    /\ LoopFree
    /\ Ops < MaxOps
    /\ r \in active_executions
    /\ ~cancelled[r]
    /\ IF pc[r] = "scheduled"
       THEN /\ pc' = [pc EXCEPT ![r] = "never_ran"]
            /\ UNCHANGED <<cancelled, pend>>
       ELSE IF pc[r] = "never_ran"
            THEN \* the entry of a task that is over: cancel() does nothing
                 UNCHANGED <<pc, cancelled, pend>>
            ELSE /\ cancelled' = [cancelled EXCEPT ![r] = TRUE]
                 /\ pend' = [pend EXCEPT ![r] = NoPend]
                 /\ UNCHANGED pc
    /\ call' = [fn |-> "cancel_request", id |-> r, tracked |-> TRUE,
                returned |-> FALSE, ret |-> FALSE]
    /\ UNCHANGED <<busVars, storeVars, handlerVars, kind, current_task, domain,
                   agentVars, cancelVars, ghostVars, older_tasks>>

\* cancel_request(r) with no execution tracked under r: return False
CancelRequestUntracked(r) ==
    /\ LoopFree
    /\ Ops < MaxOps
    /\ r \notin active_executions
    /\ call' = [fn |-> "cancel_request", id |-> r, tracked |-> FALSE,
                returned |-> TRUE, ret |-> FALSE]
    /\ UNCHANGED <<busVars, storeVars, handlerVars, execVars, agentVars,
                   cancelVars, ghostVars, older_tasks>>

\* A buggy result: a task cancelled before its first step counts as not
\* cancelled.
AwaitResultStartedOnly(how) == how = "cancelled"

\* await execution_task in cancel_request: True when the task ended with
\* CancelledError (in its first step or at a suspension point), False when
\* it ended in another way
AwaitResult(how) == how \in {"cancelled", "never_ran"}

\* the awaited execution is over: cancel_request returns
CancelRequestReturn(r) ==
    /\ call.fn = "cancel_request"
    /\ call.id = r
    /\ ~call.returned
    /\ Ended(r)
    /\ call' = [call EXCEPT !.returned = TRUE, !.ret = AwaitResult(pc[r])]
    /\ UNCHANGED <<busVars, storeVars, handlerVars, execVars, agentVars,
                   cancelVars, ghostVars, older_tasks>>

\* CancelledError is raised in the suspended execution: no except clause
\* catches it, the finally clauses run
ExecCancelled(r) ==
    /\ LoopFree
    /\ cancelled[r]
    /\ ~Ended(r)
    /\ active_handoffs' = IF InRoute(r) THEN DictDel(active_handoffs, r)
                          ELSE active_handoffs
    /\ active_executions' = active_executions \ {r}
    /\ pc' = [pc EXCEPT ![r] = "cancelled"]
    /\ UNCHANGED <<busVars, storeVars, hpc, reqCtx, kind, pend, current_task,
                   domain, cancelled, execution_count, error_count, cancelVars,
                   ghostVars>>
    /\ UNCHANGED auxVars

\* enqueue_event(e) by a cancel call for request r, up to the gather
CancelPublish(r, e, nextcpc) ==
    /\ events' = DequeAppend(events, e)
    /\ nev' = nev + 1
    /\ cpend' = [cpend EXCEPT ![r] = [ev |-> e, cbs |-> CoreCbs(e)]]
    /\ cpc' = [cpc EXCEPT ![r] = nextcpc]
    /\ pubs' = [pubs EXCEPT ![r] = Append(@, PubRecord(e, "cancel"))]

\* A2ACoordinatorAgent.cancel(context, event_queue) up to its first
\* suspension: forward to the tracked domain's executor, else the base cancel
CoordinatorCancel(r) ==
    /\ LoopFree
    /\ Ops < MaxOps
    /\ cpc[r] = "idle"
    /\ hpc[r] \in {"returned", "direct"}
    /\ kind[r] = "coordinator"
    /\ LET tid == IF current_task[r] THEN r ELSE 0 IN
       IF DictHas(active_handoffs, tid)
       THEN IF DictGet(active_handoffs, tid) \in AgentKeys
            THEN /\ CancelPublish(r, StatusEvent(r, "cancelled", TRUE), "forwarded")
                 /\ UNCHANGED active_handoffs
            ELSE /\ active_handoffs' = DictDel(active_handoffs, tid)
                 /\ CancelPublish(r, StatusEvent(r, "cancelled", TRUE), "base")
       ELSE /\ IF current_task[r]
               THEN CancelPublish(r, StatusEvent(r, "cancelled", TRUE), "base")
               ELSE /\ cpc' = [cpc EXCEPT ![r] = "done"]
                    /\ UNCHANGED <<events, nev, cpend, pubs>>
            /\ UNCHANGED active_handoffs
    /\ UNCHANGED <<subscribers, context_subscribers, inflight, subAt, removed,
                   storeVars, handlerVars, execVars, execution_count, error_count,
                   raised, missed>>
    /\ UNCHANGED auxVars

\* cancel after the forwarded cancel returned: del self.active_handoffs[id]
\* (KeyError when the entry is gone), then BaseAgentExecutor.cancel
CoordinatorCancelBase(r) ==
    /\ LoopFree
    /\ cpc[r] = "forwarded"
    /\ cpend[r].cbs = <<>>
    /\ IF DictHas(active_handoffs, r)
       THEN /\ active_handoffs' = DictDel(active_handoffs, r)
            /\ CancelPublish(r, StatusEvent(r, "cancelled", TRUE), "base")
       ELSE /\ cpc' = [cpc EXCEPT ![r] = "raised"]
            /\ UNCHANGED <<events, nev, cpend, pubs, active_handoffs>>
    /\ UNCHANGED <<subscribers, context_subscribers, inflight, subAt, removed,
                   storeVars, handlerVars, execVars, execution_count, error_count,
                   raised, missed>>
    /\ UNCHANGED auxVars

\* the base cancel's publish is over: cancel returns
CoordinatorCancelReturn(r) ==
    /\ LoopFree
    /\ cpc[r] = "base"
    /\ cpend[r].cbs = <<>>
    /\ cpc' = [cpc EXCEPT ![r] = "done"]
    /\ UNCHANGED <<busVars, storeVars, handlerVars, execVars, agentVars, cpend,
                   ghostVars>>
    /\ UNCHANGED auxVars

\* one callback task of the publish a cancel call waits in runs
DeliverCancel(r) ==
    /\ LoopFree
    /\ cpend[r].cbs # <<>>
    /\ OldestPending(cpend[r].ev.id)
    /\ LET cb == Head(cpend[r].cbs)
           e == cpend[r].ev
       IN /\ task' = IF cb.kind = "handler" THEN ApplyStatus(e) ELSE task
          /\ active_handoffs' = IF cb.kind = "handoff" THEN ApplyHandoff(e)
                                ELSE active_handoffs
    /\ cpend' = [cpend EXCEPT ![r].cbs = Tail(@)]
    /\ UNCHANGED <<busVars, contexts, history, nctx, tasks, context_tasks,
                   handlerVars, execVars, execution_count, error_count, cpc,
                   ghostVars>>
    /\ UNCHANGED auxVars

\* list_tasks(context_id=c): the ids of the stored Tasks of context c
TasksOfContext(c) == {t \in tasks : task[t].contextId = c}

\* list_tasks(..., limit: int = 100)
ListLimit == 100

\* list_tasks(context_id=c) as clear_context calls it, with the default
\* limit: the Tasks of c sorted newest first and cut by tasks[:limit]; the
\* result holds the Tasks of the modelled requests first and then this
\* number of the older ones
ListedOlder(c) == Min(older_tasks[c], ListLimit - Cardinality(TasksOfContext(c)))

\* DefaultRequestHandler.clear_context(c) for a stored context: delete the
\* context, clear its events, delete its tasks
ClearContext(c) ==
    /\ LoopFree
    /\ Ops < MaxOps
    /\ c \in contexts
    /\ contexts' = contexts \ {c}
    /\ events' = SeqDropCtx(events, c)
    /\ removed' = removed + (Len(events) - Len(events'))
    /\ tasks' = tasks \ TasksOfContext(c)
    /\ context_tasks' = [x \in Ctxs |->
                            context_tasks[x] \ {t \in TasksOfContext(c) :
                                                    task[t].contextId = x}]
    /\ older_tasks' = [older_tasks EXCEPT ![c] = @ - ListedOlder(c)]
    /\ UNCHANGED <<subscribers, context_subscribers, nev, inflight, subAt,
                   history, nctx, task, handlerVars, execVars, agentVars,
                   cancelVars, ghostVars, call>>

\* InMemoryContextStore.create_context(new_context()) called on the store
CreateContext ==
    /\ nctx < MaxContexts
    /\ nctx' = nctx + 1
    /\ contexts' = contexts \cup {nctx + 1}
    /\ UNCHANGED <<busVars, history, tasks, context_tasks, task, handlerVars,
                   execVars, agentVars, cancelVars, ghostVars, auxVars>>

\* InMemoryTaskStore.create_task(task) called on the store with a new Task
\* of context c, while no request is in progress
CreateTask(c) ==
    /\ c \in contexts
    /\ tasks = {}
    /\ older_tasks[c] <= ListLimit
    /\ older_tasks' = [older_tasks EXCEPT ![c] = @ + 1]
    /\ UNCHANGED <<busVars, storeVars, handlerVars, execVars, agentVars,
                   cancelVars, ghostVars, call>>

\* InMemoryContextStore.cleanup_old_contexts: every stored context created
\* before the cutoff is deleted (context ids are in creation order)
CleanupOldContexts(cutoff) ==
    /\ LoopFree
    /\ \E c \in contexts : c < cutoff
    /\ Cardinality({c \in contexts : c < cutoff}) <= MaxOps - Ops
    /\ contexts' = {c \in contexts : c >= cutoff}
    /\ UNCHANGED <<busVars, history, nctx, tasks, context_tasks, task,
                   handlerVars, execVars, agentVars, cancelVars, ghostVars>>
    /\ UNCHANGED auxVars

Next ==
    \/ \E r \in Requests, c \in 0..MaxContexts : HandleRequest(r, c)
    \/ \E r \in Requests : HandleRequestReturn(r)
    \/ \E r \in Requests : ExecStart(r)
    \/ \E r \in Requests : Deliver(r)
    \/ \E r \in Requests : RouteToAgent(r)
    \/ \E r \in Requests : AdapterRespond(r)
    \/ \E r \in Requests : AdapterComplete(r)
    \/ \E r \in Requests : AdapterWaitHandoff(r)
    \/ \E r \in Requests : ExecReturn(r)
    \/ \E r \in Requests : CancelRequest(r)
    \/ \E r \in Requests : CancelRequestUntracked(r)
    \/ \E r \in Requests : CancelRequestReturn(r)
    \/ \E r \in Requests : ExecCancelled(r)
    \/ \E r \in Requests : CoordinatorCancel(r)
    \/ \E r \in Requests : CoordinatorCancelBase(r)
    \/ \E r \in Requests : CoordinatorCancelReturn(r)
    \/ \E r \in Requests : DeliverCancel(r)
    \/ \E c \in Ctxs : ClearContext(c)
    \/ \E k \in 2..(MaxContexts + 1) : CleanupOldContexts(k)

\* the calls of the keyword functions on the texts of the bounded
\* vocabularies, before they are made
CallInputs ==
    {[fn |-> "simple_classification", agent |-> "coordinator",
      structured_data |-> "None", text |-> text, domain |-> "none",
      confidence |-> 0, reason |-> "pending"] : text \in Texts(ClassifyWords)}
    \cup
    {[fn |-> "check_for_handoff", agent |-> c[1], structured_data |-> c[2],
      text |-> c[3], domain |-> "none", confidence |-> 0,
      reason |-> "pending"] :
         c \in AdapterDomains \X StructuredData \X Texts(HandoffWords)}

\* one call of a keyword function is about to be made
InitFn ==
    /\ InitQueue
    /\ InitCoreIdle
    /\ call \in CallInputs

\* the Coordinator's keyword classification applied to the text
Classify ==
    /\ call.fn = "simple_classification"
    /\ call.reason = "pending"
    /\ call' = [call EXCEPT
                   !.domain = simple_classification(call.text).domain,
                   !.confidence = simple_classification(call.text).confidence,
                   !.reason = "keyword"]
    /\ UNCHANGED <<busVars, storeVars, handlerVars, execVars, agentVars,
                   cancelVars, ghostVars, older_tasks>>

\* the handoff detection of the adapter of domain call.agent applied to the
\* response
CheckHandoff ==
    /\ call.fn = "check_for_handoff"
    /\ call.reason = "pending"
    /\ LET handoff == check_for_handoff(call.agent, call.structured_data,
                                        call.text)
       IN  call' = [call EXCEPT !.domain = handoff.to_agent,
                                !.reason = handoff.reason]
    /\ UNCHANGED <<busVars, storeVars, handlerVars, execVars, agentVars,
                   cancelVars, ghostVars, older_tasks>>

NextFn ==
    \/ Classify
    \/ CheckHandoff

\* A buggy lookup: every task id is taken as stored.
TaskFoundAlways(t) == TRUE

\* task.id in self._tasks
TaskFound(t) == t \in tasks

\* the Task objects handed to update_task: a Task with the given id whose
\* state and contextId the caller has set
TaskInputs == [state : {"working"}, assigned_agent : {"none"}, contextId : Ctxs]

\* InMemoryTaskStore.create_task(task) with task.id = t, task.contextId = c
StoreCreateTask(t, c) ==
    /\ tasks' = tasks \cup {t}
    /\ task' = [task EXCEPT ![t] = [state |-> "created",
                                    assigned_agent |-> "none", contextId |-> c]]
    /\ context_tasks' = [context_tasks EXCEPT ![c] = @ \cup {t}]
    /\ call' = [fn |-> "create_task", id |-> t, ret |-> task'[t]]
    /\ UNCHANGED <<busVars, contexts, history, nctx, handlerVars, execVars,
                   agentVars, cancelVars, ghostVars, older_tasks>>

\* InMemoryTaskStore.update_task(obj) with obj.id = t
StoreUpdateTask(t, obj) ==
    /\ IF TaskFound(t)
       THEN /\ tasks' = tasks \cup {t}
            /\ task' = [task EXCEPT ![t] = obj]
       ELSE UNCHANGED <<tasks, task>>
    /\ call' = [fn |-> "update_task", id |-> t, ret |-> obj]
    /\ UNCHANGED <<busVars, contexts, history, nctx, context_tasks,
                   handlerVars, execVars, agentVars, cancelVars, ghostVars,
                   older_tasks>>

\* InMemoryTaskStore.delete_task(t)
StoreDeleteTask(t) ==
    /\ IF TaskFound(t)
       THEN /\ tasks' = tasks \ {t}
            /\ context_tasks' = [context_tasks EXCEPT
                                    ![task[t].contextId] = @ \ {t}]
            /\ task' = [task EXCEPT ![t] = NoTask]
            /\ call' = [fn |-> "delete_task", id |-> t, ret |-> TRUE]
       ELSE /\ UNCHANGED <<tasks, context_tasks, task>>
            /\ call' = [fn |-> "delete_task", id |-> t, ret |-> FALSE]
    /\ UNCHANGED <<busVars, contexts, history, nctx, handlerVars,
                   execVars, agentVars, cancelVars, ghostVars, older_tasks>>

\* InMemoryTaskStore.cleanup_old_tasks: every stored Task created before
\* the cutoff is deleted (task ids are in creation order)
StoreCleanupOldTasks(cutoff) ==
    /\ \E t \in tasks : t < cutoff
    /\ tasks' = {t \in tasks : t >= cutoff}
    /\ context_tasks' =
           [c \in Ctxs |->
               context_tasks[c] \ {t \in tasks : t < cutoff /\ task[t].contextId = c}]
    /\ task' = [t \in Requests |->
                   IF t \in tasks /\ t < cutoff THEN NoTask ELSE task[t]]
    /\ call' = [fn |-> "cleanup_old_tasks", id |-> cutoff,
                ret |-> Cardinality({t \in tasks : t < cutoff})]
    /\ UNCHANGED <<busVars, contexts, history, nctx, handlerVars,
                   execVars, agentVars, cancelVars, ghostVars, older_tasks>>

\* no call has been made on the Task Store yet; the two stores share no
\* state, and the calls on the Context Store are made first
TaskStoreFresh ==
    /\ tasks = {}
    /\ \A c \in Ctxs : context_tasks[c] = {}
    /\ \A t \in Requests : task[t] = NoTask

\* InMemoryContextStore.create_context(new_context()), as CreateContext
StoreCreateContext ==
    /\ TaskStoreFresh
    /\ CreateContext

\* InMemoryContextStore.update_context(context) with context.id = c and
\* conversation_history h
StoreUpdateContext(c, h) ==
    /\ TaskStoreFresh
    /\ IF ContextFound(c)
       THEN history' = [history EXCEPT ![c] = h]
       ELSE UNCHANGED history
    /\ call' = [fn |-> "update_context", id |-> c, ret |-> h]
    /\ UNCHANGED <<busVars, contexts, nctx, tasks, context_tasks, task,
                   handlerVars, execVars, agentVars, cancelVars, ghostVars,
                   older_tasks>>

\* InMemoryContextStore.delete_context(c)
StoreDeleteContext(c) ==
    /\ TaskStoreFresh
    /\ IF ContextFound(c)
       THEN /\ contexts' = contexts \ {c}
            /\ history' = [history EXCEPT ![c] = <<>>]
            /\ call' = [fn |-> "delete_context", id |-> c, ret |-> TRUE]
       ELSE /\ UNCHANGED <<contexts, history>>
            /\ call' = [fn |-> "delete_context", id |-> c, ret |-> FALSE]
    /\ UNCHANGED <<busVars, nctx, tasks, context_tasks, task,
                   handlerVars, execVars, agentVars, cancelVars, ghostVars,
                   older_tasks>>

\* the two stores alone, called through their own methods
NextStore ==
    \/ StoreCreateContext
    \/ \E t \in Requests, c \in Ctxs : StoreCreateTask(t, c)
    \/ \E t \in Requests, obj \in TaskInputs : StoreUpdateTask(t, obj)
    \/ \E t \in Requests : StoreDeleteTask(t)
    \/ \E k \in 2..(MaxRequests + 1) : StoreCleanupOldTasks(k)
    \/ \E c \in Ctxs, h \in {<<>>, <<<<"user", 1>>>>} : StoreUpdateContext(c, h)
    \/ \E c \in Ctxs : StoreDeleteContext(c)

\* the stores filled directly, and clear_context on the handler
NextClear ==
    \/ CreateContext
    \/ \E c \in Ctxs : CreateTask(c)
    \/ \E c \in Ctxs : ClearContext(c)

\* executors called directly (execute, and cancel on the Coordinator), each
\* request with or without a current Task, in any context
InitExec ==
    /\ events = <<>>
    /\ subscribers = [t \in EventTypes |->
                         IF t = "task_status_update" THEN <<HandlerCb>> ELSE <<>>]
    /\ context_subscribers = [c \in Ctxs |-> <<>>]
    /\ nev = 0
    /\ inflight = [p \in Producers |-> IdleCall]
    /\ subAt = [n \in 1..MaxSubs |-> 0]
    /\ removed = 0
    /\ contexts = Ctxs
    /\ history = [c \in Ctxs |-> <<>>]
    /\ nctx = MaxContexts
    /\ current_task \in [Requests -> BOOLEAN]
    /\ reqCtx \in [Requests -> Ctxs]
    /\ tasks = {r \in Requests : current_task[r]}
    /\ context_tasks = [c \in Ctxs |-> {r \in tasks : reqCtx[r] = c}]
    /\ task = [r \in Requests |->
                  IF current_task[r]
                  THEN [state |-> "created", assigned_agent |-> "none",
                        contextId |-> reqCtx[r]]
                  ELSE NoTask]
    /\ hpc = [r \in Requests |-> "direct"]
    /\ active_executions = {}
    /\ kind \in [Requests -> Executors]
    /\ pc = [r \in Requests |-> "scheduled"]
    /\ pend = [r \in Requests |-> NoPend]
    /\ domain = [r \in Requests |-> "none"]
    /\ cancelled = [r \in Requests |-> FALSE]
    /\ active_handoffs = {}
    /\ execution_count = [x \in Executors |-> 0]
    /\ error_count = [x \in Executors |-> 0]
    /\ cpc = [r \in Requests |-> "idle"]
    /\ cpend = [r \in Requests |-> NoPend]
    /\ pubs = [r \in Requests |-> <<>>]
    /\ raised = [r \in Requests |-> {}]
    /\ missed = {}
    /\ older_tasks = [c \in Ctxs |-> 0]
    /\ call = NoCall

NextExec ==
    \/ \E r \in Requests : DirectExecute(r)
    \/ \E r \in Requests : Deliver(r)
    \/ \E r \in Requests : RouteToAgent(r)
    \/ \E r \in Requests : AdapterRespond(r)
    \/ \E r \in Requests : AdapterComplete(r)
    \/ \E r \in Requests : AdapterWaitHandoff(r)
    \/ \E r \in Requests : ExecReturn(r)
    \/ \E r \in Requests : CoordinatorCancel(r)
    \/ \E r \in Requests : CoordinatorCancelBase(r)
    \/ \E r \in Requests : CoordinatorCancelReturn(r)
    \/ \E r \in Requests : DeliverCancel(r)

(***************************************************************************)
(* Specifications                                                          *)
(***************************************************************************)
\* the EventQueue alone, driven by outside producers and consumers
\* a fresh EventQueue with nothing else running
InitBus ==
    /\ InitQueue
    /\ InitCoreIdle
    /\ call = NoCall

SpecBus == InitBus /\ [][NextBus]_vars

\* the Request Handler with the Coordinator, its stores and the EventQueue
Spec == Init /\ [][Next]_vars

\* execute called directly on the Coordinator or on an adapter
SpecExec == InitExec /\ [][NextExec]_vars
SpecClear == Init /\ [][NextClear]_vars
SpecFn == InitFn /\ [][NextFn]_vars
SpecStore == Init /\ [][NextStore]_vars

(***************************************************************************)
(* Properties of the EventQueue (checked under SpecBus).                   *)
(***************************************************************************)
\* the external callback n is registered for events like e and was
\* registered before e was published
Matches(n, e) ==
    /\ subAt[n] # 0
    /\ subAt[n] <= e.id
    /\ \/ ExtCb(n) \in Range(subscribers[e.type])
       \/ ExtCb(n) \in Range(context_subscribers[e.contextId])

\* the callback tasks of call c that have run (returned or raised)
Attempted(c) == {c.cbs[i] : i \in {j \in 1..Len(c.cbs) : c.res[j] # "pending"}}

QueryIds(c) ==
    LET q == get_events_for_context(c, {}, 0) IN {q[i].id : i \in 1..Len(q)}

\* C7 (P6, bounded buffer): the buffer never holds more than max_size
\* events; as long as nothing was cleared it holds exactly the newest
\* min(published, max_size) events in publication order, so every overflow
\* evicted the oldest buffered event, total_events is max_size once more
\* than max_size events were published, and no query returns an evicted one.
C7_BoundedBuffer ==
    /\ total_events <= max_size
    /\ removed = 0 =>
          /\ total_events = Min(nev, max_size)
          /\ \A i \in 1..Len(events) : events[i].id = nev - Len(events) + i
          /\ \A c \in Ctxs : \A id \in QueryIds(c) : id > nev - max_size

C7_Witness ==
    /\ removed = 0
    /\ nev > max_size
    /\ total_events = max_size
    /\ \A c \in Ctxs : 1 \notin QueryIds(c)

\* C8: when a subscriber callback raised during a publish, the publish does
\* not end with an error, the event is buffered (unless evicted or cleared
\* since), and once the publish has returned every subscriber registered for
\* the event's type or context - the failing one included, which is still
\* registered - has been invoked for it.
C8_SubscriberFailureContained ==
    \A p \in Producers :
        LET c == inflight[p] IN
        (c.st # "idle" /\ \E i \in 1..Len(c.res) : c.res[i] = "raised") =>
            /\ c.st \in {"waiting", "returned"}
            /\ (removed = 0 /\ c.ev.id > nev - max_size) =>
                   \E i \in 1..Len(events) : events[i] = c.ev
            /\ \A i \in 1..Len(c.cbs) :
                   c.res[i] = "raised" =>
                       c.cbs[i] \in Range(subscribers[c.ev.type])
                                    \cup Range(context_subscribers[c.ev.contextId])
            /\ c.st = "returned" =>
                   \A n \in 1..MaxSubs : Matches(n, c.ev) => ExtCb(n) \in Attempted(c)

C8_Witness ==
    \E p \in Producers :
        LET c == inflight[p] IN
        /\ c.st = "returned"
        /\ \E i, j \in 1..Len(c.res) : c.res[i] = "raised" /\ c.res[j] = "ok"
        /\ \E i \in 1..Len(events) : events[i] = c.ev
        /\ c.ev.id > 1

\* C9: when publish(event) has returned, the callbacks that have run for
\* the event are exactly those of the subscribers registered (before the
\* publish) for the event's type or for its contextId: each of them has
\* returned or raised, and no subscriber of another type or context ran.
C9_ReturnsAfterAllCallbacks ==
    \A p \in Producers :
        LET c == inflight[p] IN
        c.st = "returned" =>
            /\ \A i \in 1..Len(c.res) : c.res[i] # "pending"
            /\ \A n \in 1..MaxSubs : Matches(n, c.ev) <=> ExtCb(n) \in Attempted(c)

C9_Witness ==
    \E p \in Producers :
        LET c == inflight[p] IN
        /\ c.st = "returned"
        /\ \E n, m \in 1..MaxSubs :
              /\ ExtCb(n) \in Range(subscribers[c.ev.type])
              /\ ExtCb(m) \in Range(context_subscribers[c.ev.contextId])
              /\ {ExtCb(n), ExtCb(m)} \subseteq Attempted(c)
        /\ Len(c.cbs) = 2

(***************************************************************************)
(* Properties of the Task Store, the executors and the Request Handler.    *)
(***************************************************************************)
\* a step in which the status-update subscriber of the Request Handler
\* calls update_task
UpdateTaskStep == \E q \in Requests : Deliver(q) \/ DeliverCancel(q)

\* C1 (P1, task monotonicity): when a stored Task is completed, failed or
\* cancelled, no update_task call of the status-update subscriber changes its
\* state to a non-terminal value.
C1_TaskMonotonicity ==
    [][\A r \in Requests :
          (UpdateTaskStep /\ r \in tasks /\ task[r].state \in Terminal)
              => task'[r].state \in Terminal]_vars

\* the transitions of the Task state machine
\* created -> assigned -> working -> {input_required, waiting_for_handoff,
\* completed, failed, cancelled}
StateMachine ==
    {<<"created", "assigned">>, <<"assigned", "working">>}
    \cup {<<"working", st>> : st \in {"input_required", "waiting_for_handoff",
                                       "completed", "failed", "cancelled"}}

\* C2: every change of a stored Task's state during a request handled with
\* the Coordinator is a transition of the Task state machine (never working
\* back to assigned, never created directly to working).
C2_StateMachineFollowed ==
    [][\A r \in Requests :
          (r \in tasks /\ r \in tasks' /\ task'[r].state # task[r].state)
              => <<task[r].state, task'[r].state>> \in StateMachine]_vars

\* C3: in every reachable state each Task in the Task Store has a contextId
\* of a Context that is in the Context Store.
C3_TaskContextExists ==
    \A t \in tasks : task[t].contextId \in contexts

\* positions of pubs[r] at which execute published
ByExecute(r) == {i \in 1..Len(pubs[r]) : pubs[r][i].by = "execute"}

\* final status updates with a state in S that execute published for r
FinalStatus(r, S) ==
    {i \in ByExecute(r) : /\ pubs[r][i].type = "task_status_update"
                          /\ pubs[r][i].final
                          /\ pubs[r][i].state \in S}

\* C4: when execute has returned it has published, for the request's Task, a
\* final status update with state completed, failed or cancelled, or a
\* handoff event followed by a final waiting_for_handoff status update; also
\* for a request without a current Task and when the logic raised.
C4_ExecutePublishesFinal ==
    \A r \in Requests :
        pc[r] = "done" =>
            \/ FinalStatus(r, Terminal) # {}
            \/ \E i \in ByExecute(r), j \in FinalStatus(r, {"waiting_for_handoff"}) :
                   pubs[r][i].type = "agent_handoff" /\ i < j

\* C5: when the logic of an executor raised during execute for a request
\* with a current Task, execute returns with exactly one final failed status
\* update published for the Task, and every executor's error counter equals
\* the number of executions in which its logic raised (each raise adds 1).
C5_RaiseCountedAndReported ==
    /\ \A r \in Requests :
           (pc[r] = "done" /\ current_task[r] /\ raised[r] # {})
               => Cardinality(FinalStatus(r, {"failed"})) = 1
    /\ \A x \in Executors :
           error_count[x] >= Cardinality({r \in Requests : current_task[r]
                                                            /\ x \in raised[r]})

\* C6 (P4): the tracking map of the Coordinator holds at most one entry per
\* Task id, and once the domain executor's execute for a Task has returned,
\* raised or been cancelled the map has no entry for that Task id, also when
\* a handoff event of the Task was delivered to the handoff handler.
C6_TrackingMapClean ==
    /\ \A a, b \in active_handoffs : a[1] = b[1] => a = b
    /\ \A r \in Requests :
           pc[r] \in {"done", "cancelled"} => ~DictHas(active_handoffs, r)

\* a routed execution that published a handoff event has returned and the
\* map has no entry for its Task
C6_Witness ==
    \E r \in Requests :
        /\ pc[r] = "done"
        /\ \E i \in ByExecute(r) : pubs[r][i].type = "agent_handoff"
        /\ ~DictHas(active_handoffs, r)

\* C10: no event of a request's executor is published before handle_request
\* has returned and its caller has subscribed by the returned context id: no
\* executor event is missed by that caller.
C10_NoEventBeforeReturn ==
    /\ missed = {}
    /\ \A r \in Requests : ByExecute(r) # {} => hpc[r] = "returned"

\* handle_request has returned, the Task does not exist yet, and later the
\* first executor event is published to the subscribed caller
C10_Witness ==
    \E r \in Requests :
        /\ hpc[r] = "returned"
        /\ ByExecute(r) # {}
        /\ ClientCb(r) \in Range(context_subscribers[reqCtx[r]])
        /\ missed = {}

\* the requests accepted on context c, in arrival order
RequestsOn(c) ==
    SelectSeq([i \in 1..MaxRequests |-> i],
              LAMBDA r : hpc[r] \in {"launched", "returned"} /\ reqCtx[r] = c)

\* the history that holds the user text of each request on c once, in order
UserTexts(c) == [i \in 1..Len(RequestsOn(c)) |-> <<"user", RequestsOn(c)[i]>>]

\* C11: once the executions of the requests accepted on a stored Context
\* have ended, its conversation_history holds exactly one "user" entry per
\* request, in arrival order, with no entry twice.
C11_OneUserEntryPerRequest ==
    \A c \in contexts :
        (\A i \in 1..Len(RequestsOn(c)) : Ended(RequestsOn(c)[i]))
            => history[c] = UserTexts(c)

C13_UnknownContextRejected ==
    [][\A r \in Requests :
          (hpc[r] = "none" /\ hpc'[r] # "none") =>
              \/ /\ hpc'[r] = "launched"
                 /\ \/ reqCtx'[r] \in contexts /\ nctx' = nctx
                    \/ reqCtx'[r] = nctx + 1 /\ nctx' = nctx + 1
              \/ /\ hpc'[r] = "rejected"
                 /\ UNCHANGED <<contexts, history, nctx, tasks, context_tasks,
                                task, pc, active_executions, events, reqCtx>>
                 /\ r \notin tasks /\ r \notin active_executions
                 /\ pc[r] = "idle"]_vars

\* a request was rejected while another Context was stored
C13_Witness ==
    \E r \in Requests : hpc[r] = "rejected" /\ contexts # {}

\* C14: when clear_context(c) deletes the stored Context c, the Task Store
\* holds no Task of c afterwards, however many Tasks c had, and the Tasks of
\* the other contexts are untouched.
C14_ClearContextDeletesAllTasks ==
    [][\A c \in Ctxs :
          (c \in contexts /\ c \notin contexts') =>
              /\ older_tasks'[c] = 0
              /\ {t \in tasks' : task'[t].contextId = c} = {}
              /\ \A x \in Ctxs \ {c} : older_tasks'[x] = older_tasks[x]]_vars

\* the states in which a Task waits for further input
Paused == {"input_required", "waiting_for_handoff"}

\* C15: a Task left paused (input_required or waiting_for_handoff) is the
\* Task the next request on its Context continues: the Task Store never
\* holds a paused Task of a Context beside a newer Task that a later
\* request on the same Context created.
C15_PausedTaskResumed ==
    \A t, u \in tasks :
        (t < u /\ task[t].contextId = task[u].contextId /\ reqCtx[u] = reqCtx[t])
            => task[t].state \notin Paused

\* the execution of request r was classified by keywords (the
\* HandoffService returns registered domains only)
KeywordRouted(r) ==
    /\ kind[r] = "coordinator"
    /\ domain[r] = simple_classification(MessageText).domain

\* C16: a request whose text holds the keyword "crop" and that the keyword
\* classification routes has, once its execution is over, a stored Task
\* with assigned_agent = "cropping_agent"; and a dispatched request's Task
\* carries the domain it was dispatched to.
C16_CropAssignedToCroppingAgent ==
    \A r \in tasks :
        /\ (KeywordRouted(r) /\ pc[r] = "done")
               => task[r].assigned_agent = "cropping_agent"
        /\ InRoute(r) => task[r].assigned_agent = domain[r]

\* C17: a request classified to a domain that is no key of the agents map
\* is served by the default domain's executor: the Coordinator raises
\* nothing for it and its Task does not end failed.
C17_UnknownDomainServedByDefault ==
    \A r \in tasks :
        (kind[r] = "coordinator" /\ domain[r] = DefaultDomain)
            => /\ "coordinator" \notin raised[r]
               /\ task[r].state # "failed"

\* C18: the keyword classification returns the domain with the most
\* keywords in the lower-cased text, the first-registered one among equal
\* counts, with confidence min(0.8, 0.2 * matches) (in tenths); a text
\* without keyword gets the fallback domain with its low confidence; two
\* matches in one domain and one in another give the first with 0.4.
C18_KeywordClassification ==
    (call.fn = "simple_classification" /\ call.reason # "pending") =>
        LET n == [i \in 1..Len(domain_patterns) |->
                     Cardinality({kw \in domain_patterns[i].keywords :
                                     \E w \in call.text : KeywordIn(kw, lower(w))})]
        IN  /\ (\A i \in DOMAIN n : n[i] = 0)
                   => /\ call.domain = "product_management"
                      /\ call.confidence = 3
            /\ (\E i \in DOMAIN n : n[i] > 0)
                   => \E i \in DOMAIN n :
                         /\ call.domain = domain_patterns[i].domain
                         /\ \A j \in DOMAIN n : n[j] <= n[i]
                         /\ \A j \in 1..(i - 1) : n[j] < n[i]
                         /\ call.confidence = Min(8, 2 * n[i])
            /\ call.text = {"design", "paint", "stock"}
                   => call.domain = "interior_design" /\ call.confidence = 4

\* a text with two keywords of one domain, one of them in upper case, and
\* one keyword of another domain has been classified
C18_Witness ==
    /\ call.fn = "simple_classification"
    /\ call.reason # "pending"
    /\ call.text = {"design", "COLOR", "stock"}
    /\ call.domain = "interior_design"
    /\ call.confidence = 4

\* the highest keyword count of a text (zero without a keyword)
WinningMatches(text) ==
    IF Scored(text) = {} THEN 0 ELSE Score(best_domain(text), text)

\* C19: the confidence never falls when the winning match count grows,
\* zero matches included: a text with no more winning matches than the
\* classified one has no higher confidence; and it never passes the cap.
C19_ConfidenceMonotonic ==
    (call.fn = "simple_classification" /\ call.reason # "pending") =>
        /\ call.confidence <= ConfidenceCap
        /\ \A other \in Texts(ClassifyWords) :
               WinningMatches(other) <= WinningMatches(call.text)
                   => simple_classification(other).confidence <= call.confidence

\* C20 (P5): the keyword-based handoff detection of an adapter never names
\* the adapter's own domain as to_agent, whatever the response text; it
\* names the first other domain, in pattern order, with a keyword in the
\* text.
C20_NoSelfHandoff ==
    (/\ call.fn = "check_for_handoff"
     /\ call.reason # "pending"
     /\ call.structured_data \notin AdapterDomains)
        => /\ call.domain # call.agent
           /\ call.domain # "none" =>
                  \E i \in 1..Len(handoff_patterns) :
                      /\ handoff_patterns[i].domain = call.domain
                      /\ \E kw \in handoff_patterns[i].keywords :
                             Occurs(kw, call.text)

\* the response of the cropping adapter holds a keyword of its own domain
\* and one of another domain, and the other domain is returned
C20_Witness ==
    /\ call.fn = "check_for_handoff"
    /\ call.agent = "cropping_agent"
    /\ call.structured_data = "no_handoff"
    /\ {"Resize", "video"} \subseteq call.text
    /\ call.domain = "video_agent"

\* C21: in both stores an update with an entity whose id is not stored and
\* a delete of an id that is not stored change nothing: update returns the
\* entity it was given, delete returns false, no entity is created, and
\* the primary maps and the by-context index stay as they were.
C21_UnknownIdNoOp ==
    [][/\ \A t \in Requests :
             /\ (t \notin tasks /\ StoreDeleteTask(t))
                    => UNCHANGED storeVars /\ call'.ret = FALSE
             /\ \A obj \in TaskInputs :
                    (t \notin tasks /\ StoreUpdateTask(t, obj))
                        => UNCHANGED storeVars /\ call'.ret = obj
       /\ \A c \in Ctxs :
             /\ (c \notin contexts /\ StoreDeleteContext(c))
                    => UNCHANGED storeVars /\ call'.ret = FALSE
             /\ \A h \in {<<>>, <<<<"user", 1>>>>} :
                    (c \notin contexts /\ StoreUpdateContext(c, h))
                        => UNCHANGED storeVars /\ call'.ret = h]_vars

\* an update of a Task that is not stored was made while another Task and
\* a Context were stored
C21_Witness ==
    /\ call.fn = "update_task"
    /\ call.id \notin tasks
    /\ tasks # {}
    /\ contexts # {}

\* C28: the Task Store's by-context index agrees with its primary map: a
\* task id is in the index set of context c exactly when a Task with that
\* id is stored and its contextId is c.
C28_IndexAgreesWithTasks ==
    \A c \in Ctxs : context_tasks[c] = {t \in tasks : task[t].contextId = c}

\* C22: Coordinator.cancel for a Task with a tracked domain forwards the
\* cancel, removes the tracking entry and publishes the base class's
\* cancelled status: the call never ends in an error raised by the removal,
\* and once it is over a final cancelled status published by the cancel
\* call is on record for the Task.
C22_CancelRemovesAndPublishes ==
    \A r \in Requests :
        /\ cpc[r] # "raised"
        /\ (cpc[r] = "done" /\ current_task[r])
               => \E i \in 1..Len(pubs[r]) :
                      /\ pubs[r][i].by = "cancel"
                      /\ pubs[r][i].state = "cancelled"
                      /\ pubs[r][i].final

\* C23: cancel_request(messageId) returns true exactly when an execution
\* was tracked under messageId when it was called, and false when none was
\* tracked, whether the cancel arrives before the execution's first step,
\* while it is suspended, or when only its return is left.
C23_CancelRequestResult ==
    (call.fn = "cancel_request" /\ call.returned)
        => call.ret = call.tracked

\* a cancel_request that arrived before the first step of the execution
\* has returned
C23_Witness ==
    /\ call.fn = "cancel_request"
    /\ call.returned
    /\ call.ret
    /\ pc[call.id] = "never_ran"

\* C30: an execution tracked by handle_request leaves the active-execution
\* map: once it has completed, failed or been cancelled by cancel_request
\* (also by a cancel that arrives before its first step), its message id
\* is not listed by get_active_requests.
C30_TrackedExecutionRemoved ==
    \A r \in Requests : Ended(r) => r \notin active_executions

\* C24: query(contextId, types, limit) returns exactly the buffered events
\* of the context, of the given types when types is given, most recent
\* first, cut to the first limit events when limit is given; in particular
\* it returns for every buffer the queue can hold.
C24_QueryReturnsMatching ==
    \A c \in Ctxs, ts \in SUBSET EventTypes, limit \in 0..MaxSize :
        /\ ~QueryRaises(c)
        /\ LET q == get_events_for_context(c, ts, limit)
               match == {i \in 1..Len(events) :
                            /\ events[i].contextId = c
                            /\ ts # {} => events[i].type \in ts}
           IN  /\ \A i \in 1..Len(q) : \E j \in match : q[i] = events[j]
               /\ \A i, j \in 1..Len(q) : i < j => q[i].ts >= q[j].ts
               /\ Len(q) = IF limit # 0 THEN Min(limit, Cardinality(match))
                            ELSE Cardinality(match)

StatusPublishOver(r) ==
    /\ Started(r)
    /\ ~Ended(r)
    /\ ~cancelled[r]
    /\ pend[r].ev.type = "task_status_update"
    /\ pend[r].cbs = <<>>

\* C26: when the publish of a status update returns, the Request Handler's
\* subscriber has been applied: a referenced Task that is in the Task Store
\* has the state the event carries.
C26_StatusAppliedAtReturn ==
    \A r \in Requests :
        (StatusPublishOver(r) /\ pend[r].ev.taskId \in tasks)
            => task[pend[r].ev.taskId].state = pend[r].ev.state

\* the final status updates published for the Task of request r
FinalsOf(r) ==
    {i \in 1..Len(pubs[r]) :
        pubs[r][i].type = "task_status_update" /\ pubs[r][i].final}

\* C27 (P3): a consumer that applies each event id once never applies a
\* terminal transition twice for a Task: no two distinct final status
\* updates are published for one Task, the Coordinator's cancel path
\* included.
C27_OneFinalPerTask ==
    \A r \in Requests : Cardinality(FinalsOf(r)) <= 1

\* C29: the tracking map of the Coordinator contains only ids of Tasks whose
\* domain executor's execute is in progress; a handoff event delivered to the
\* handoff handler for a Task that is not in flight leaves no entry behind.
C29_TrackedOnlyInFlight ==
    \A q \in active_handoffs : q[1] \in Requests /\ InRoute(q[1])

====
